---- MODULE Spec2Model ----
(***************************************************************************)
(* Model of llm-council/scripts/query_llms.py: one run of main() resolves  *)
(* the configuration (.env file, then process environment, then built-in   *)
(* defaults) and queries ChatGPT and Gemini, each through its CLI tool     *)
(* first and the HTTPS API as fallback, then prints one JSON object.       *)
(*                                                                         *)
(* Texts that the program takes apart (lines of the .env file, the         *)
(* standard streams of a CLI tool) are sequences of tokens: every          *)
(* character the code looks at (blank, newline, quote, '#', '=') is a      *)
(* token of its own, any other run of characters is one token.  Str joins  *)
(* the tokens into the Python string.  Python's None is the string None.   *)
(*                                                                         *)
(* The environment is assumed to let the interpreter run main() to its     *)
(* end: a .env file that exists is a readable text file and standard       *)
(* output accepts the printed line.                                        *)
(***************************************************************************)
EXTENDS Integers, Sequences, FiniteSets, TLC

VARIABLES run, other

vars == <<run, other>>

\* ---------------------------------------------------------------- bounds
MaxArgs == 2
MaxLines == 2

\* ------------------------------------------------------- Python values
None == "<None>"
Unbound == "<unbound>"

Truthy(v) == v # None /\ v # ""

\* Python's `a or b`
PyOr(a, b) == IF Truthy(a) THEN a ELSE b

RECURSIVE Str(_)
Str(s) == IF s = <<>> THEN "" ELSE Head(s) \o Str(Tail(s))

Whitespace == {" ", "\n", "\t"}

RECURSIVE LStrip(_, _)
LStrip(s, chars) ==
  IF s # <<>> /\ Head(s) \in chars THEN LStrip(Tail(s), chars) ELSE s

RECURSIVE RStrip(_, _)
RStrip(s, chars) ==
  IF s # <<>> /\ s[Len(s)] \in chars
    THEN RStrip(SubSeq(s, 1, Len(s) - 1), chars)
    ELSE s

\* str.strip(chars): every leading and trailing character in chars goes
\* (the singleton set has the left-stripped text computed once)
StripChars(s, chars) ==
  CHOOSE r \in { RStrip(l, chars) : l \in {LStrip(s, chars)} } : TRUE

\* str.strip()
Strip(s) == StripChars(s, Whitespace)

\* " ".join(words)
RECURSIVE Join(_)
Join(words) ==
  IF words = <<>> THEN ""
  ELSE IF Len(words) = 1 THEN words[1]
  ELSE words[1] \o " " \o Join(Tail(words))

\* dict operations
EmptyDict == <<>>

\* d[k] = v
DictSet(d, k, v) == (k :> v) @@ d

\* dict.get(k) and os.environ.get(k)
DictGet(d, k) == IF k \in DOMAIN d THEN d[k] ELSE None

\* ------------------------------------------------------- load_env_file
\* index of the first "=" of a line that has one
FirstEq(line) == CHOOSE i \in 1..Len(line) :
                   line[i] = "=" /\ \A j \in 1..(i - 1) : line[j] # "="

\* the loop body from the `if` on, for a line that is stripped already
LoadStripped(env_vars, line) ==
  IF line # <<>> /\ line[1] # "#" /\ (\E i \in 1..Len(line) : line[i] = "=")
    THEN LET i == FirstEq(line)
             key == SubSeq(line, 1, i - 1)
             value == SubSeq(line, i + 1, Len(line))
         IN DictSet(env_vars, Str(Strip(key)),
                    Str(StripChars(StripChars(Strip(value), {"\""}), {"'"})))
    ELSE env_vars

\* the body of the loop over the lines: one line applied to env_vars
\* (the singleton set has line.strip() computed once)
LoadLine(env_vars, rawline) ==
  CHOOSE d \in { LoadStripped(env_vars, line) : line \in {Strip(rawline)} } : TRUE

RECURSIVE LoadLines(_, _)
LoadLines(env_vars, lines) ==
  IF lines = <<>> THEN env_vars
  ELSE LoadLines(LoadLine(env_vars, Head(lines)), Tail(lines))

\* env_path is the state of the file ".env": whether it exists, its lines
load_env_file(env_path) ==
  IF ~env_path.exists THEN EmptyDict ELSE LoadLines(EmptyDict, env_path.lines)

\* ---------------------------------------------------- is_cli_available
\* path is the set of tool names shutil.which finds on the PATH
is_cli_available(cli_name, path) == cli_name \in path

\* ------------------------------------------- what subprocess.run can do
\* the tool ran to its end within the timeout
Exited(returncode, stdout, stderr) ==
  [kind |-> "exit", returncode |-> returncode, stdout |-> stdout,
   stderr |-> stderr, detail |-> ""]

\* subprocess.TimeoutExpired after the 60 seconds
TimedOut ==
  [kind |-> "timeout", returncode |-> -1, stdout |-> <<>>, stderr |-> <<>>,
   detail |-> ""]

\* any other exception of subprocess.run (the tool could not be started)
NotStarted ==
  [kind |-> "exception", returncode |-> -1, stdout |-> <<>>, stderr |-> <<>>,
   detail |-> "[Errno 13] Permission denied"]

CliOutcomes ==
  { Exited(0, <<"hello", "\n">>, <<>>),
    Exited(0, <<" ", "\n">>, <<"warning", "\n">>),
    Exited(1, <<"partial">>, <<"boom", "\n">>),
    TimedOut,
    NotStarted }

\* the outcomes of the two-run comparison: success, non-zero exit, timeout
PairCliOutcomes ==
  { Exited(0, <<"hello", "\n">>, <<>>),
    Exited(1, <<>>, <<"boom", "\n">>),
    TimedOut }

query_gemini_cli(o) ==
  IF o.kind = "exit"
    THEN IF o.returncode = 0
           THEN <<TRUE, Str(Strip(o.stdout))>>
           ELSE <<FALSE, "gemini-cli error: " \o Str(Strip(o.stderr))>>
    ELSE IF o.kind = "timeout"
           THEN <<FALSE, "gemini-cli timed out">>
           ELSE <<FALSE, "gemini-cli exception: " \o o.detail>>

query_codex_cli(o) ==
  IF o.kind = "exit"
    THEN IF o.returncode = 0
           THEN <<TRUE, Str(Strip(o.stdout))>>
           ELSE <<FALSE, "codex error: " \o Str(Strip(o.stderr))>>
    ELSE IF o.kind = "timeout"
           THEN <<FALSE, "codex timed out">>
           ELSE <<FALSE, "codex exception: " \o o.detail>>

\* --------------------------------------------- what requests.post can do
\* requests.post raised (connection error, the 30 second timeout)
TransportError(detail) ==
  [kind |-> "transport", status |-> 0, is_json |-> FALSE, body |-> <<>>,
   detail |-> detail]

\* a response arrived: its status, whether its body is JSON, the JSON body
Response(status, is_json, body) ==
  [kind |-> "response", status |-> status, is_json |-> is_json, body |-> body,
   detail |-> ""]

OpenAIBody(content) == [choices |-> <<[message |-> [content |-> content]]>>]

GeminiBody(text) ==
  [candidates |-> <<[content |-> [parts |-> <<[text |-> text]>>]]>>]

ApiOutcomes ==
  { Response(200, TRUE, OpenAIBody("answer of the API")),
    Response(200, TRUE, GeminiBody("answer of the API")),
    Response(200, TRUE, OpenAIBody(None)),
    Response(200, TRUE, [choices |-> <<>>]),
    Response(200, TRUE, [candidates |-> <<>>]),
    Response(200, FALSE, <<>>),
    Response(401, TRUE, [error |-> "invalid key"]),
    TransportError("Read timed out. (read timeout=30)") }

\* the outcomes of the two-run comparison: success, transport error,
\* malformed response
PairApiOutcomes ==
  { Response(200, TRUE, OpenAIBody("answer of the API")),
    Response(200, TRUE, GeminiBody("answer of the API")),
    Response(200, FALSE, <<>>),
    TransportError("Connection refused") }

\* str(e) of the exception response.raise_for_status() raises
HTTPErrorText(o) == ToString(o.status) \o " Client Error for url"

JSONDecodeErrorText == "Expecting value: line 1 column 1 (char 0)"

\* the try block of query_openai: <<raised, returned value or str(e)>>
OpenAITry(o) ==
  IF o.kind = "transport" THEN <<TRUE, o.detail>>
  ELSE IF o.status >= 400 THEN <<TRUE, HTTPErrorText(o)>>
  ELSE IF ~o.is_json THEN <<TRUE, JSONDecodeErrorText>>
  ELSE IF "choices" \notin DOMAIN o.body THEN <<TRUE, "'choices'">>
  ELSE IF o.body.choices = <<>> THEN <<TRUE, "list index out of range">>
  ELSE <<FALSE, o.body.choices[1].message.content>>

\* mutant: the error message names the default model, not the model used
query_openai_default_model(prompt, api_key, model, o) ==
  LET r == OpenAITry(o) IN
  IF r[1] THEN "Error querying ChatGPT (gpt-5-nano): " \o r[2] ELSE r[2]

query_openai(prompt, api_key, model, o) ==
  LET r == OpenAITry(o) IN
  IF r[1] THEN "Error querying ChatGPT (" \o model \o "): " \o r[2] ELSE r[2]

\* the try block of query_gemini
GeminiTry(o) ==
  IF o.kind = "transport" THEN <<TRUE, o.detail>>
  ELSE IF o.status >= 400 THEN <<TRUE, HTTPErrorText(o)>>
  ELSE IF ~o.is_json THEN <<TRUE, JSONDecodeErrorText>>
  ELSE IF "candidates" \notin DOMAIN o.body THEN <<TRUE, "'candidates'">>
  ELSE IF o.body.candidates = <<>> THEN <<TRUE, "list index out of range">>
  ELSE <<FALSE, o.body.candidates[1].content.parts[1].text>>

query_gemini(prompt, api_key, model, o) ==
  LET r == GeminiTry(o) IN
  IF r[1] THEN "Error querying Gemini (" \o model \o "): " \o r[2] ELSE r[2]

\* ------------------------------------------------------ the run's state
Settings == {"OPENAI_API_KEY", "GEMINI_API_KEY", "OPENAI_MODEL", "GEMINI_MODEL"}

\* The state before main() starts: the command line, the file ".env", the
\* process environment (None: the variable is unset), the tools on the PATH.
\* events logs the CLI invocations and API requests of the run, in order.
InitRun(argv, env_path, environ, path) ==
  [pc |-> "start",
   argv |-> argv, env_path |-> env_path, environ |-> environ, path |-> path,
   prompt |-> Unbound, env_vars |-> EmptyDict,
   openai_key |-> Unbound, gemini_key |-> Unbound,
   openai_model |-> Unbound, gemini_model |-> Unbound,
   gemini_cli_available |-> FALSE, codex_cli_available |-> FALSE,
   success |-> FALSE, response |-> Unbound,
   chatgpt_response |-> Unbound, chatgpt_source |-> Unbound,
   gemini_response |-> Unbound, gemini_source |-> Unbound,
   events |-> <<>>, stdout |-> <<>>, exit_status |-> None]

UsageObject ==
  [error |-> "Usage: query_llms.py <prompt>", chatgpt |-> None, gemini |-> None]

\* ------------------------------------------------------------- main()
\* mutant: the argument check is off by one
StartOffByOne(s, t) ==
  /\ s.pc = "start"
  /\ IF Len(s.argv) < 1
       THEN t = [s EXCEPT !.stdout = Append(@, UsageObject),
                          !.exit_status = 1,
                          !.pc = "exited"]
       ELSE t = [s EXCEPT !.prompt = Join(Tail(s.argv)),
                          !.pc = "load_config"]

\* the argument check, and the prompt
Start(s, t) ==
  /\ s.pc = "start"
  /\ IF Len(s.argv) < 2
       THEN t = [s EXCEPT !.stdout = Append(@, UsageObject),
                          !.exit_status = 1,
                          !.pc = "exited"]
       ELSE t = [s EXCEPT !.prompt = Join(Tail(s.argv)),
                          !.pc = "load_config"]

\* mutant: the process environment is looked up before the file
LoadConfigEnvFirst(s, t) ==
  /\ s.pc = "load_config"
  /\ \E env_vars \in {load_env_file(s.env_path)} :
     t = [s EXCEPT
            !.env_vars = env_vars,
            !.openai_key = PyOr(DictGet(s.environ, "OPENAI_API_KEY"),
                                DictGet(env_vars, "OPENAI_API_KEY")),
            !.gemini_key = PyOr(DictGet(s.environ, "GEMINI_API_KEY"),
                                DictGet(env_vars, "GEMINI_API_KEY")),
            !.openai_model = PyOr(PyOr(DictGet(s.environ, "OPENAI_MODEL"),
                                       DictGet(env_vars, "OPENAI_MODEL")),
                                  "gpt-5-nano"),
            !.gemini_model = PyOr(PyOr(DictGet(s.environ, "GEMINI_MODEL"),
                                       DictGet(env_vars, "GEMINI_MODEL")),
                                  "gemini-3-flash-preview"),
            !.gemini_cli_available = is_cli_available("gemini", s.path),
            !.codex_cli_available = is_cli_available("codex", s.path),
            !.pc = "chatgpt_cli"]

\* the configuration and the CLI availability
LoadConfig(s, t) ==
  /\ s.pc = "load_config"
  /\ \E env_vars \in {load_env_file(s.env_path)} :
     t = [s EXCEPT
            !.env_vars = env_vars,
            !.openai_key = PyOr(DictGet(env_vars, "OPENAI_API_KEY"),
                                DictGet(s.environ, "OPENAI_API_KEY")),
            !.gemini_key = PyOr(DictGet(env_vars, "GEMINI_API_KEY"),
                                DictGet(s.environ, "GEMINI_API_KEY")),
            !.openai_model = PyOr(PyOr(DictGet(env_vars, "OPENAI_MODEL"),
                                       DictGet(s.environ, "OPENAI_MODEL")),
                                  "gpt-5-nano"),
            !.gemini_model = PyOr(PyOr(DictGet(env_vars, "GEMINI_MODEL"),
                                       DictGet(s.environ, "GEMINI_MODEL")),
                                  "gemini-3-flash-preview"),
            !.gemini_cli_available = is_cli_available("gemini", s.path),
            !.codex_cli_available = is_cli_available("codex", s.path),
            !.pc = "chatgpt_cli"]

CliEvent(tool, prompt, o) ==
  [op |-> "cli", target |-> tool, prompt |-> prompt, outcome |-> o]

ApiEvent(provider, prompt, api_key, model, o) ==
  [op |-> "api", target |-> provider, prompt |-> prompt, api_key |-> api_key,
   model |-> model, outcome |-> o]

\* mutant: the tool's text is taken as the answer whether or not it succeeded
ChatgptCliKeepsError(s, t, outcomes) ==
  /\ s.pc = "chatgpt_cli"
  /\ LET s0 == [s EXCEPT !.chatgpt_response = None, !.chatgpt_source = None,
                         !.pc = "chatgpt_fallback"] IN
     IF s.codex_cli_available
       THEN \E o \in outcomes :
              LET r == query_codex_cli(o)
                  s1 == [s0 EXCEPT !.success = r[1], !.response = r[2],
                           !.events = Append(@, CliEvent("codex", s.prompt, o))]
              IN t = [s1 EXCEPT !.chatgpt_response = s1.response,
                                !.chatgpt_source = "codex-cli"]
       ELSE t = s0

\* mutant: a failed invocation of the tool is tried a second time
ChatgptCliRetry(s, t, outcomes) ==
  /\ s.pc = "chatgpt_cli"
  /\ LET s0 == [s EXCEPT !.chatgpt_response = None, !.chatgpt_source = None,
                         !.pc = "chatgpt_fallback"] IN
     IF s.codex_cli_available
       THEN \E o \in outcomes :
              LET r == query_codex_cli(o)
                  s1 == [s0 EXCEPT !.success = r[1], !.response = r[2],
                           !.events = Append(@, CliEvent("codex", s.prompt, o))]
              IN IF s1.success
                   THEN t = [s1 EXCEPT !.chatgpt_response = s1.response,
                                       !.chatgpt_source = "codex-cli"]
                   ELSE \E o2 \in outcomes :
                          LET r2 == query_codex_cli(o2)
                              s2 == [s1 EXCEPT !.success = r2[1], !.response = r2[2],
                                       !.events = Append(@, CliEvent("codex", s.prompt, o2))]
                          IN IF s2.success
                               THEN t = [s2 EXCEPT !.chatgpt_response = s2.response,
                                                   !.chatgpt_source = "codex-cli"]
                               ELSE t = s2
       ELSE t = s0

\* ChatGPT, the codex CLI first
ChatgptCli(s, t, outcomes) ==
  /\ s.pc = "chatgpt_cli"
  /\ LET s0 == [s EXCEPT !.chatgpt_response = None, !.chatgpt_source = None,
                         !.pc = "chatgpt_fallback"] IN
     IF s.codex_cli_available
       THEN \E o \in outcomes :
              LET r == query_codex_cli(o)
                  s1 == [s0 EXCEPT !.success = r[1], !.response = r[2],
                           !.events = Append(@, CliEvent("codex", s.prompt, o))]
              IN IF s1.success
                   THEN t = [s1 EXCEPT !.chatgpt_response = s1.response,
                                       !.chatgpt_source = "codex-cli"]
                   ELSE t = s1
       ELSE t = s0

\* mutant: `if not chatgpt_response` where the code has `is None`
ChatgptFallbackTruthy(s, t, outcomes) ==
  /\ s.pc = "chatgpt_fallback"
  /\ LET s0 == [s EXCEPT !.pc = "gemini_cli"] IN
     IF ~Truthy(s.chatgpt_response)
       THEN IF Truthy(s.openai_key)
              THEN \E o \in outcomes :
                     t = [s0 EXCEPT
                            !.chatgpt_response =
                               query_openai(s.prompt, s.openai_key, s.openai_model, o),
                            !.chatgpt_source = "api (" \o s.openai_model \o ")",
                            !.events = Append(@, ApiEvent("chatgpt", s.prompt,
                                            s.openai_key, s.openai_model, o))]
              ELSE t = [s0 EXCEPT
                          !.chatgpt_response =
                             "Error: codex CLI not available and OPENAI_API_KEY not found",
                          !.chatgpt_source = "none"]
       ELSE t = s0

\* ChatGPT, the API as fallback
ChatgptFallback(s, t, outcomes) ==
  /\ s.pc = "chatgpt_fallback"
  /\ LET s0 == [s EXCEPT !.pc = "gemini_cli"] IN
     IF s.chatgpt_response = None
       THEN IF Truthy(s.openai_key)
              THEN \E o \in outcomes :
                     t = [s0 EXCEPT
                            !.chatgpt_response =
                               query_openai(s.prompt, s.openai_key, s.openai_model, o),
                            !.chatgpt_source = "api (" \o s.openai_model \o ")",
                            !.events = Append(@, ApiEvent("chatgpt", s.prompt,
                                            s.openai_key, s.openai_model, o))]
              ELSE t = [s0 EXCEPT
                          !.chatgpt_response =
                             "Error: codex CLI not available and OPENAI_API_KEY not found",
                          !.chatgpt_source = "none"]
       ELSE t = s0

\* mutant: the source string is the one copied from the ChatGPT block
GeminiCliCopiedSource(s, t, outcomes) ==
  /\ s.pc = "gemini_cli"
  /\ LET s0 == [s EXCEPT !.gemini_response = None, !.gemini_source = None,
                         !.pc = "gemini_fallback"] IN
     IF s.gemini_cli_available
       THEN \E o \in outcomes :
              LET r == query_gemini_cli(o)
                  s1 == [s0 EXCEPT !.success = r[1], !.response = r[2],
                           !.events = Append(@, CliEvent("gemini", s.prompt, o))]
              IN IF s1.success
                   THEN t = [s1 EXCEPT !.gemini_response = s1.response,
                                       !.gemini_source = "codex-cli"]
                   ELSE t = s1
       ELSE t = s0

\* mutant: `if success:` stands outside `if gemini_cli_available:`, so it
\* reads the success and response the ChatGPT block left behind
GeminiCliStaleResponse(s, t, outcomes) ==
  /\ s.pc = "gemini_cli"
  /\ LET s0 == [s EXCEPT !.gemini_response = None, !.gemini_source = None,
                         !.pc = "gemini_fallback"] IN
     \E o \in outcomes :
       LET r == query_gemini_cli(o)
           s1 == IF s.gemini_cli_available
                   THEN [s0 EXCEPT !.success = r[1], !.response = r[2],
                           !.events = Append(@, CliEvent("gemini", s.prompt, o))]
                   ELSE s0
       IN IF s1.success
            THEN t = [s1 EXCEPT !.gemini_response = s1.response,
                                !.gemini_source = "gemini-cli"]
            ELSE t = s1

\* Gemini, the gemini CLI first
GeminiCli(s, t, outcomes) ==
  /\ s.pc = "gemini_cli"
  /\ LET s0 == [s EXCEPT !.gemini_response = None, !.gemini_source = None,
                         !.pc = "gemini_fallback"] IN
     IF s.gemini_cli_available
       THEN \E o \in outcomes :
              LET r == query_gemini_cli(o)
                  s1 == [s0 EXCEPT !.success = r[1], !.response = r[2],
                           !.events = Append(@, CliEvent("gemini", s.prompt, o))]
              IN IF s1.success
                   THEN t = [s1 EXCEPT !.gemini_response = s1.response,
                                       !.gemini_source = "gemini-cli"]
                   ELSE t = s1
       ELSE t = s0

\* mutant: the error string is the one copied from the ChatGPT block
GeminiFallbackCopiedError(s, t, outcomes) ==
  /\ s.pc = "gemini_fallback"
  /\ LET s0 == [s EXCEPT !.pc = "print"] IN
     IF s.gemini_response = None
       THEN IF Truthy(s.gemini_key)
              THEN \E o \in outcomes :
                     t = [s0 EXCEPT
                            !.gemini_response =
                               query_gemini(s.prompt, s.gemini_key, s.gemini_model, o),
                            !.gemini_source = "api (" \o s.gemini_model \o ")",
                            !.events = Append(@, ApiEvent("gemini", s.prompt,
                                            s.gemini_key, s.gemini_model, o))]
              ELSE t = [s0 EXCEPT
                          !.gemini_response =
                             "Error: codex CLI not available and OPENAI_API_KEY not found",
                          !.gemini_source = "none"]
       ELSE t = s0

\* Gemini, the API as fallback
GeminiFallback(s, t, outcomes) ==
  /\ s.pc = "gemini_fallback"
  /\ LET s0 == [s EXCEPT !.pc = "print"] IN
     IF s.gemini_response = None
       THEN IF Truthy(s.gemini_key)
              THEN \E o \in outcomes :
                     t = [s0 EXCEPT
                            !.gemini_response =
                               query_gemini(s.prompt, s.gemini_key, s.gemini_model, o),
                            !.gemini_source = "api (" \o s.gemini_model \o ")",
                            !.events = Append(@, ApiEvent("gemini", s.prompt,
                                            s.gemini_key, s.gemini_model, o))]
              ELSE t = [s0 EXCEPT
                          !.gemini_response =
                             "Error: gemini CLI not available and GEMINI_API_KEY not found",
                          !.gemini_source = "none"]
       ELSE t = s0

\* the result object
Result(s) ==
  [prompt |-> s.prompt,
   chatgpt |-> [model |-> s.openai_model, source |-> s.chatgpt_source,
                response |-> s.chatgpt_response],
   gemini |-> [model |-> s.gemini_model, source |-> s.gemini_source,
               response |-> s.gemini_response]]

\* print(json.dumps(result)) and the end of main(): exit status 0
PrintResult(s, t) ==
  /\ s.pc = "print"
  /\ t = [s EXCEPT !.stdout = Append(@, Result(s)),
                   !.exit_status = 0,
                   !.pc = "done"]

\* ------------------------------------------------------------- inputs
\* sys.argv with n words after the script's name
Argv(n) == <<"query_llms.py">> \o [i \in 1..n |-> "w" \o ToString(i)]

Argvs == { Argv(n) : n \in 0..MaxArgs }

NoFile == [exists |-> FALSE, lines |-> <<>>]

File(lines) == [exists |-> TRUE, lines |-> lines]

Environ(openai_key, gemini_key, openai_model, gemini_model) ==
  [k \in Settings |->
     IF k = "OPENAI_API_KEY" THEN openai_key
     ELSE IF k = "GEMINI_API_KEY" THEN gemini_key
     ELSE IF k = "OPENAI_MODEL" THEN openai_model
     ELSE gemini_model]

QuotedKeyLine == <<"OPENAI_API_KEY", "=", "\"", "abc", "\"">>

\* lines a .env file is made of
EnvLines ==
  { QuotedKeyLine,
    <<"OPENAI_API_KEY", "=">>,
    <<" ", "GEMINI_API_KEY", " ", "=", " ", "'", "g", "-", "key", "'", " ">>,
    <<"GEMINI_API_KEY", "=", "\"", "\"">>,
    <<"OPENAI_MODEL", "=", "gpt-4o">>,
    <<"OPENAI_MODEL", "=", " ">>,
    <<"GEMINI_MODEL", "=", "a", "=", "b">>,
    <<"#", "GEMINI_MODEL", "=", "commented">>,
    <<"OPENAI_MODEL">>,
    <<>> }

\* the .env files of at most MaxLines lines
EnvFiles ==
  {NoFile} \cup
  { File(lines) : lines \in UNION { [1..n -> EnvLines] : n \in 0..MaxLines } }

Environs == [Settings -> {None, "", "from-env"}]

\* the configurations the dispatcher is run under
DispatchFiles ==
  { NoFile,
    File(<<QuotedKeyLine, <<"#", " ", "models">>, <<"GEMINI_MODEL", "=", "gemini-pro">>>>),
    File(<<<<"OPENAI_API_KEY", "=">>, <<"GEMINI_API_KEY", "=", "\"", "\"">>>>) }

DispatchEnvirons ==
  { Environ(None, None, None, None),
    Environ("sk-env", "g-env", None, None),
    Environ("", "g-env", "gpt-4o", None) }

\* no second run
Idle == [pc |-> "idle"]

\* ------------------------------------------------- one run of the program
Init ==
  /\ run \in { InitRun(a, f, e, p) :
                 a \in Argvs, f \in DispatchFiles, e \in DispatchEnvirons,
                 p \in SUBSET {"codex", "gemini"} }
  /\ other = Idle

DoStart == Start(run, run') /\ UNCHANGED other

DoLoadConfig == LoadConfig(run, run') /\ UNCHANGED other

DoChatgptCli == ChatgptCli(run, run', CliOutcomes) /\ UNCHANGED other

DoChatgptFallback == ChatgptFallback(run, run', ApiOutcomes) /\ UNCHANGED other

DoGeminiCli == GeminiCli(run, run', CliOutcomes) /\ UNCHANGED other

DoGeminiFallback == GeminiFallback(run, run', ApiOutcomes) /\ UNCHANGED other

DoPrintResult == PrintResult(run, run') /\ UNCHANGED other

Next ==
  \/ DoStart
  \/ DoLoadConfig
  \/ DoChatgptCli
  \/ DoChatgptFallback
  \/ DoGeminiCli
  \/ DoGeminiFallback
  \/ DoPrintResult

Spec == Init /\ [][Next]_vars

\* main() is one sequential thread and each of its blocking calls is cut off
\* by a timeout (60 s for a tool, 30 s for a request): it always goes on
FairSpec == Init /\ [][Next]_vars /\ WF_vars(Next)

\* ------------------------------------ the configuration resolver alone
ResolveInit ==
  /\ run \in { InitRun(a, f, e, {"codex"}) :
                 a \in {Argv(0), Argv(1)}, f \in EnvFiles, e \in Environs }
  /\ other = Idle

ResolveNext == DoStart \/ DoLoadConfig

ResolveSpec == ResolveInit /\ [][ResolveNext]_vars

\* ------------------------------------------- two runs, one after the other
PairEnvirons ==
  { Environ(None, None, None, None),
    Environ("sk-env", None, None, None),
    Environ(None, "g-env", None, None),
    Environ("sk-env", "g-env", None, None),
    Environ("sk-env", "g-env", "gpt-4o", None) }

PairRuns(argvs) ==
  { InitRun(a, NoFile, e, p) :
      a \in argvs, e \in PairEnvirons, p \in SUBSET {"codex", "gemini"} }

\* the second run has the first run's prompt, another prompt, or none
PairInit ==
  /\ run \in PairRuns({Argv(1)})
  /\ other \in PairRuns({Argv(1)}) \cup
                { InitRun(Argv(2), NoFile, Environ("sk-env", "g-env", None, None), {}),
                  InitRun(Argv(0), NoFile, Environ(None, None, None, None), {}) }

Finished(s) == s.pc \in {"done", "exited"}

FirstChatgptCli == ChatgptCli(run, run', PairCliOutcomes) /\ UNCHANGED other

FirstChatgptFallback == ChatgptFallback(run, run', PairApiOutcomes) /\ UNCHANGED other

FirstGeminiCli == GeminiCli(run, run', PairCliOutcomes) /\ UNCHANGED other

FirstGeminiFallback == GeminiFallback(run, run', PairApiOutcomes) /\ UNCHANGED other

SecondStart == Finished(run) /\ Start(other, other') /\ UNCHANGED run

SecondLoadConfig == LoadConfig(other, other') /\ UNCHANGED run

SecondChatgptCli == ChatgptCli(other, other', PairCliOutcomes) /\ UNCHANGED run

SecondChatgptFallback == ChatgptFallback(other, other', PairApiOutcomes) /\ UNCHANGED run

SecondGeminiCli == GeminiCli(other, other', PairCliOutcomes) /\ UNCHANGED run

SecondGeminiFallback == GeminiFallback(other, other', PairApiOutcomes) /\ UNCHANGED run

SecondPrintResult == PrintResult(other, other') /\ UNCHANGED run

PairNext ==
  \/ DoStart
  \/ DoLoadConfig
  \/ FirstChatgptCli
  \/ FirstChatgptFallback
  \/ FirstGeminiCli
  \/ FirstGeminiFallback
  \/ DoPrintResult
  \/ SecondStart
  \/ SecondLoadConfig
  \/ SecondChatgptCli
  \/ SecondChatgptFallback
  \/ SecondGeminiCli
  \/ SecondGeminiFallback
  \/ SecondPrintResult

PairSpec == PairInit /\ [][PairNext]_vars

\* ============================================================== claims
CliCalls(s, tool) ==
  SelectSeq(s.events, LAMBDA e : e.op = "cli" /\ e.target = tool)

ApiCalls(s, provider) ==
  SelectSeq(s.events, LAMBDA e : e.op = "api" /\ e.target = provider)

CliSucceeded(o) == o.kind = "exit" /\ o.returncode = 0

\* the program is past the ChatGPT block, past the Gemini block
PastChatgpt(s) == s.pc \in {"gemini_cli", "gemini_fallback", "print", "done"}

PastGemini(s) == s.pc \in {"print", "done"}

HasPrompt(s) == Len(s.argv) >= 2

\* a response the provider's endpoint answers the request with
OpenAIAnswered(o) ==
  /\ o.kind = "response" /\ o.status = 200 /\ o.is_json
  /\ "choices" \in DOMAIN o.body /\ o.body.choices # <<>>

GeminiAnswered(o) ==
  /\ o.kind = "response" /\ o.status = 200 /\ o.is_json
  /\ "candidates" \in DOMAIN o.body /\ o.body.candidates # <<>>

\* ------------------------------------------------------------------ C1
\* C1: for each provider, once its CLI tool has exited with status 0 no API
\* request is ever issued for that provider, and the response of the output
\* is the tool's stripped standard output (also when that is empty and a key
\* is configured).
C1_CliSuccessIsFinal ==
  /\ \A i \in DOMAIN CliCalls(run, "codex") :
       LET o == CliCalls(run, "codex")[i].outcome IN
       CliSucceeded(o) =>
         /\ ApiCalls(run, "chatgpt") = <<>>
         /\ run.pc = "done" =>
              run.stdout[1].chatgpt.response = Str(Strip(o.stdout))
  /\ \A i \in DOMAIN CliCalls(run, "gemini") :
       LET o == CliCalls(run, "gemini")[i].outcome IN
       CliSucceeded(o) =>
         /\ ApiCalls(run, "gemini") = <<>>
         /\ run.pc = "done" =>
              run.stdout[1].gemini.response = Str(Strip(o.stdout))

\* a finished run whose codex tool printed only blanks, with a key configured
C1_Witness ==
  /\ run.pc = "done"
  /\ Truthy(run.openai_key)
  /\ Len(CliCalls(run, "codex")) = 1
  /\ CliCalls(run, "codex")[1].outcome = Exited(0, <<" ", "\n">>, <<"warning", "\n">>)
  /\ run.stdout[1].chatgpt.response = ""
  /\ Len(CliCalls(run, "gemini")) = 1
  /\ CliCalls(run, "gemini")[1].outcome = Exited(0, <<"hello", "\n">>, <<>>)
  /\ run.stdout[1].gemini.response = "hello"

\* ------------------------------------------------------------------ C2
\* C2 as stated: an answer produced by a successful CLI invocation has the
\* source descriptor "cli".
C2_SourceIsCli ==
  run.pc = "done" =>
    /\ (\E i \in DOMAIN CliCalls(run, "codex") :
          CliSucceeded(CliCalls(run, "codex")[i].outcome))
         => run.stdout[1].chatgpt.source = "cli"
    /\ (\E i \in DOMAIN CliCalls(run, "gemini") :
          CliSucceeded(CliCalls(run, "gemini")[i].outcome))
         => run.stdout[1].gemini.source = "cli"

\* C2 amended: an answer produced by a successful CLI invocation has the
\* source descriptor "codex-cli" for ChatGPT and "gemini-cli" for Gemini.
C2_SourceNamesTool ==
  run.pc = "done" =>
    /\ (\E i \in DOMAIN CliCalls(run, "codex") :
          CliSucceeded(CliCalls(run, "codex")[i].outcome))
         => run.stdout[1].chatgpt.source = "codex-cli"
    /\ (\E i \in DOMAIN CliCalls(run, "gemini") :
          CliSucceeded(CliCalls(run, "gemini")[i].outcome))
         => run.stdout[1].gemini.source = "gemini-cli"

C2_Witness ==
  /\ run.pc = "done"
  /\ Len(CliCalls(run, "codex")) = 1
  /\ CliSucceeded(CliCalls(run, "codex")[1].outcome)
  /\ Len(CliCalls(run, "gemini")) = 1
  /\ CliSucceeded(CliCalls(run, "gemini")[1].outcome)
  /\ run.stdout[1].chatgpt.source = "codex-cli"
  /\ run.stdout[1].gemini.source = "gemini-cli"

\* ------------------------------------------------------------------ C3
\* C3: for each provider, when its CLI tool was invoked and failed (timeout,
\* non-zero exit, could not be started) and a key is configured, the API
\* request is issued, and when the endpoint answers the response is the
\* answer's text, not the tool's error message.
C3_FailedCliFallsBack ==
  /\ PastChatgpt(run) =>
       \A i \in DOMAIN CliCalls(run, "codex") :
         LET o == CliCalls(run, "codex")[i].outcome IN
         (~CliSucceeded(o) /\ Truthy(run.openai_key)) =>
           /\ Len(ApiCalls(run, "chatgpt")) = 1
           /\ LET a == ApiCalls(run, "chatgpt")[1].outcome IN
              OpenAIAnswered(a) =>
                /\ run.chatgpt_response = a.body.choices[1].message.content
                /\ run.chatgpt_response # query_codex_cli(o)[2]
                /\ run.pc = "done" =>
                     run.stdout[1].chatgpt.response = run.chatgpt_response
  /\ PastGemini(run) =>
       \A i \in DOMAIN CliCalls(run, "gemini") :
         LET o == CliCalls(run, "gemini")[i].outcome IN
         (~CliSucceeded(o) /\ Truthy(run.gemini_key)) =>
           /\ Len(ApiCalls(run, "gemini")) = 1
           /\ LET a == ApiCalls(run, "gemini")[1].outcome IN
              GeminiAnswered(a) =>
                /\ run.gemini_response = a.body.candidates[1].content.parts[1].text
                /\ run.gemini_response # query_gemini_cli(o)[2]
                /\ run.pc = "done" =>
                     run.stdout[1].gemini.response = run.gemini_response

\* a finished run whose tools both timed out and whose endpoints both answered
C3_Witness ==
  /\ run.pc = "done"
  /\ Len(CliCalls(run, "codex")) = 1
  /\ CliCalls(run, "codex")[1].outcome = TimedOut
  /\ Len(ApiCalls(run, "chatgpt")) = 1
  /\ OpenAIAnswered(ApiCalls(run, "chatgpt")[1].outcome)
  /\ run.stdout[1].chatgpt.response = "answer of the API"
  /\ Len(CliCalls(run, "gemini")) = 1
  /\ CliCalls(run, "gemini")[1].outcome = TimedOut
  /\ Len(ApiCalls(run, "gemini")) = 1
  /\ GeminiAnswered(ApiCalls(run, "gemini")[1].outcome)
  /\ run.stdout[1].gemini.response = "answer of the API"

\* ------------------------------------------------------------------ C4
NoKeyConfigured(s, setting) ==
  /\ ~Truthy(DictGet(load_env_file(s.env_path), setting))
  /\ ~Truthy(DictGet(s.environ, setting))

NothingAvailable(s) ==
  /\ HasPrompt(s)
  /\ s.path = {}
  /\ NoKeyConfigured(s, "OPENAI_API_KEY")
  /\ NoKeyConfigured(s, "GEMINI_API_KEY")

\* C4: in a run with a prompt, no CLI tool on the PATH and no API key in the
\* file or the environment, no tool is invoked and no request is made, both
\* responses are the fixed error strings with source "none", and the process
\* exits with status 0.
C4_NothingAvailable ==
  NothingAvailable(run) =>
    /\ run.events = <<>>
    /\ run.pc # "exited"
    /\ run.pc = "done" =>
         /\ run.exit_status = 0
         /\ run.stdout[1].chatgpt.response =
              "Error: codex CLI not available and OPENAI_API_KEY not found"
         /\ run.stdout[1].chatgpt.source = "none"
         /\ run.stdout[1].gemini.response =
              "Error: gemini CLI not available and GEMINI_API_KEY not found"
         /\ run.stdout[1].gemini.source = "none"

\* such a run, finished, with a file whose lines give both keys no value
C4_Witness ==
  /\ NothingAvailable(run)
  /\ run.pc = "done"
  /\ run.env_path.exists
  /\ "OPENAI_API_KEY" \in DOMAIN run.env_vars
  /\ "GEMINI_API_KEY" \in DOMAIN run.env_vars
  /\ run.exit_status = 0
  /\ run.stdout[1].gemini.source = "none"

\* ------------------------------------------------------------------ C5
\* what one provider's flow reads: the availability of its tool, what its
\* tool did, its key, its model, what its endpoint did
ChatgptInputs(s) ==
  <<s.codex_cli_available,
    [i \in DOMAIN CliCalls(s, "codex") |-> CliCalls(s, "codex")[i].outcome],
    s.openai_key, s.openai_model,
    [i \in DOMAIN ApiCalls(s, "chatgpt") |-> ApiCalls(s, "chatgpt")[i].outcome]>>

GeminiInputs(s) ==
  <<s.gemini_cli_available,
    [i \in DOMAIN CliCalls(s, "gemini") |-> CliCalls(s, "gemini")[i].outcome],
    s.gemini_key, s.gemini_model,
    [i \in DOMAIN ApiCalls(s, "gemini") |-> ApiCalls(s, "gemini")[i].outcome]>>

BothResults(s) ==
  /\ Len(s.stdout) = 1
  /\ DOMAIN s.stdout[1] = {"prompt", "chatgpt", "gemini"}
  /\ s.stdout[1].chatgpt.source \notin {None, Unbound}
  /\ s.stdout[1].chatgpt.response # Unbound
  /\ s.stdout[1].gemini.source \notin {None, Unbound}
  /\ s.stdout[1].gemini.response # Unbound

\* C5: two runs with the same prompt that agree on one provider's inputs
\* print the same result record for that provider, whatever the other
\* provider's tool and endpoint do; and a run with a prompt produces both
\* results whatever fails.
C5_ProvidersIndependent ==
  /\ (run.pc = "done" /\ other.pc = "done" /\ run.prompt = other.prompt) =>
       /\ ChatgptInputs(run) = ChatgptInputs(other)
            => run.stdout[1].chatgpt = other.stdout[1].chatgpt
       /\ GeminiInputs(run) = GeminiInputs(other)
            => run.stdout[1].gemini = other.stdout[1].gemini
  /\ \A s \in {run, other} :
       /\ HasPrompt(s) => s.pc # "exited"
       /\ s.pc = "done" => BothResults(s)
  /\ (Finished(run) /\ Finished(other)) \/ ENABLED PairNext

\* two finished runs that agree on Gemini's inputs (no tool, same key, the
\* same failure of the endpoint) while codex succeeds in one and times out
\* in the other
C5_Witness ==
  /\ run.pc = "done" /\ other.pc = "done" /\ run.prompt = other.prompt
  /\ GeminiInputs(run) = GeminiInputs(other)
  /\ ~run.gemini_cli_available
  /\ Len(ApiCalls(run, "gemini")) = 1
  /\ ApiCalls(run, "gemini")[1].outcome.kind = "transport"
  /\ Len(CliCalls(run, "codex")) = 1
  /\ CliSucceeded(CliCalls(run, "codex")[1].outcome)
  /\ Len(CliCalls(other, "codex")) = 1
  /\ CliCalls(other, "codex")[1].outcome = TimedOut
  /\ Len(ApiCalls(other, "chatgpt")) = 1
  /\ ~OpenAIAnswered(ApiCalls(other, "chatgpt")[1].outcome)
  /\ run.stdout[1].gemini = other.stdout[1].gemini
  /\ run.stdout[1].chatgpt # other.stdout[1].chatgpt

\* ------------------------------------------------------------------ C6
\* the words after the script's name, with one blank between two of them
RECURSIVE SpaceJoined(_, _)
SpaceJoined(argv, n) ==
  IF n = 2 THEN argv[2] ELSE SpaceJoined(argv, n - 1) \o " " \o argv[n]

ConfigLoaded(s) == s.pc = "chatgpt_cli"

InFile(s, setting) == setting \in DOMAIN s.env_vars

InEnviron(s, setting) == s.environ[setting] # None

Resolved(s, setting) ==
  IF setting = "OPENAI_API_KEY" THEN s.openai_key
  ELSE IF setting = "GEMINI_API_KEY" THEN s.gemini_key
  ELSE IF setting = "OPENAI_MODEL" THEN s.openai_model
  ELSE s.gemini_model

Default(setting) ==
  IF setting = "OPENAI_MODEL" THEN "gpt-5-nano"
  ELSE IF setting = "GEMINI_MODEL" THEN "gemini-3-flash-preview"
  ELSE None

\* C7 as stated: a setting the file has a line for takes the file's value
\* (also an empty one) and the environment is ignored; otherwise it takes the
\* environment's value if set; otherwise a model takes its default and a key
\* is absent.  (Read in the claim's favour: an empty value, of the file or of
\* the environment, may also show as None or as the default.)
C7_FileBeatsEnvironment ==
  ConfigLoaded(run) =>
    \A k \in Settings :
      IF InFile(run, k)
        THEN IF run.env_vars[k] # ""
               THEN Resolved(run, k) = run.env_vars[k]
               ELSE Resolved(run, k) \in {"", None, Default(k)}
      ELSE IF InEnviron(run, k) /\ run.environ[k] # ""
        THEN Resolved(run, k) = run.environ[k]
      ELSE Resolved(run, k) \in {"", None, Default(k)}

\* C7 amended: a setting takes the file's value if the file has a line for
\* it with a non-empty value; otherwise the environment's value if that is
\* set and not empty; otherwise a model takes its default and a key is
\* absent (None, or the empty string the environment holds).  A file whose
\* last line is OPENAI_API_KEY="abc" yields abc whatever the environment.
C7_NonEmptyFileBeatsEnvironment ==
  ConfigLoaded(run) =>
    /\ \A k \in Settings :
         IF InFile(run, k) /\ run.env_vars[k] # ""
           THEN Resolved(run, k) = run.env_vars[k]
         ELSE IF InEnviron(run, k) /\ run.environ[k] # ""
           THEN Resolved(run, k) = run.environ[k]
         ELSE IF k \in {"OPENAI_MODEL", "GEMINI_MODEL"}
           THEN Resolved(run, k) = Default(k)
         ELSE Resolved(run, k) \in {None, ""}
    /\ ( /\ run.env_path.exists
         /\ run.env_path.lines # <<>>
         /\ run.env_path.lines[Len(run.env_path.lines)] = QuotedKeyLine )
         => run.openai_key = "abc"

\* the file gives the quoted key and a model, the environment gives other
\* values for both, and the file's values are the resolved ones
C7_Witness ==
  /\ ConfigLoaded(run)
  /\ run.env_path.lines = <<QuotedKeyLine, <<"OPENAI_MODEL", "=", "gpt-4o">>>>
  /\ run.environ["OPENAI_API_KEY"] = "from-env"
  /\ run.environ["OPENAI_MODEL"] = "from-env"
  /\ run.environ["GEMINI_MODEL"] = ""
  /\ run.openai_key = "abc"
  /\ run.openai_model = "gpt-4o"
  /\ run.gemini_model = "gemini-3-flash-preview"
  /\ run.gemini_key = None

\* ------------------------------------------------------------------ C8
ChatgptStage(s) ==
  IF s.pc = "chatgpt_fallback" THEN "CLI-Attempted"
  ELSE IF PastChatgpt(s)
    THEN IF ApiCalls(s, "chatgpt") # <<>> THEN "API-Attempted" ELSE "Done"
  ELSE "NotAttempted"

GeminiStage(s) ==
  IF s.pc = "gemini_fallback" THEN "CLI-Attempted"
  ELSE IF PastGemini(s)
    THEN IF ApiCalls(s, "gemini") # <<>> THEN "API-Attempted" ELSE "Done"
  ELSE "NotAttempted"

StageStep(a, b) ==
  \/ a = b
  \/ a = "NotAttempted" /\ b = "CLI-Attempted"
  \/ a = "CLI-Attempted" /\ b \in {"API-Attempted", "Done"}

\* every event of a provider's tool stands before every request to its API
CliBeforeApi(s, tool, provider) ==
  \A i, j \in DOMAIN s.events :
    (s.events[i].op = "cli" /\ s.events[i].target = tool /\
     s.events[j].op = "api" /\ s.events[j].target = provider) => i < j

AtMostOnce(s, tool, provider, stage) ==
  /\ Len(CliCalls(s, tool)) <= 1
  /\ Len(ApiCalls(s, provider)) <= 1
  /\ CliBeforeApi(s, tool, provider)
  /\ stage = "NotAttempted" => CliCalls(s, tool) = <<>> /\ ApiCalls(s, provider) = <<>>
  /\ stage = "CLI-Attempted" => ApiCalls(s, provider) = <<>>

Terminal(s) ==
  /\ s.pc = "done"
  /\ ChatgptStage(s) \in {"API-Attempted", "Done"}
  /\ GeminiStage(s) \in {"API-Attempted", "Done"}
  /\ BothResults(s)

\* C8: per provider a run with a prompt moves NotAttempted -> CLI-Attempted
\* -> (API-Attempted | Done) and reaches the end with a result for each
\* provider; the tool is invoked at most once, the API requested at most
\* once and never before the tool's attempt, nothing is tried again.
C8_FallbackChain ==
  /\ [](/\ AtMostOnce(run, "codex", "chatgpt", ChatgptStage(run))
        /\ AtMostOnce(run, "gemini", "gemini", GeminiStage(run)))
  /\ [][/\ StageStep(ChatgptStage(run), ChatgptStage(run'))
        /\ StageStep(GeminiStage(run), GeminiStage(run'))]_vars
  /\ HasPrompt(run) => <>Terminal(run)

\* a finished run in which each tool failed once and each API was asked once
C8_Witness ==
  /\ run.pc = "done"
  /\ Len(run.events) = 4
  /\ run.events[1].op = "cli" /\ run.events[1].outcome = TimedOut
  /\ run.events[2].op = "api" /\ run.events[2].outcome.kind = "transport"
  /\ run.events[3].op = "cli" /\ run.events[3].outcome.kind = "exit"
  /\ run.events[4].op = "api"
  /\ ChatgptStage(run) = "API-Attempted"
  /\ GeminiStage(run) = "API-Attempted"

\* ------------------------------------------------------------------ C9
\* the tool ran and failed by a timeout or a non-zero exit
CliFailed(o) == o.kind = "timeout" \/ (o.kind = "exit" /\ o.returncode # 0)

\* the detail of that failure: the timeout, or the tool's diagnostic stream
FailureDetail(o) ==
  IF o.kind = "timeout" THEN "timed out" ELSE Str(Strip(o.stderr))

\* text is a message of the program's kinds that ends in the detail
Embeds(text, detail, provider, tool, model) ==
  \E head \in {"", "Error: ", "Error querying " \o provider \o " (" \o model \o "): "} :
    \E mid \in {"", tool \o " ", tool \o " error: ", tool \o "-cli ",
                tool \o "-cli error: "} :
      text = head \o mid \o detail

\* C9 as stated: when a provider's tool failed and no later access path
\* supplied an answer, the response of the output embeds the detail of the
\* tool's failure.
C9_CliFailureDetailSurfaced ==
  run.pc = "done" =>
    /\ \A i \in DOMAIN CliCalls(run, "codex") :
         LET o == CliCalls(run, "codex")[i].outcome IN
         ( /\ CliFailed(o)
           /\ \A j \in DOMAIN ApiCalls(run, "chatgpt") :
                ~OpenAIAnswered(ApiCalls(run, "chatgpt")[j].outcome) )
           => Embeds(run.stdout[1].chatgpt.response, FailureDetail(o),
                     "ChatGPT", "codex", run.openai_model)
    /\ \A i \in DOMAIN CliCalls(run, "gemini") :
         LET o == CliCalls(run, "gemini")[i].outcome IN
         ( /\ CliFailed(o)
           /\ \A j \in DOMAIN ApiCalls(run, "gemini") :
                ~GeminiAnswered(ApiCalls(run, "gemini")[j].outcome) )
           => Embeds(run.stdout[1].gemini.response, FailureDetail(o),
                     "Gemini", "gemini", run.gemini_model)

\* ----------------------------------------------------------------- C10
\* str(e) of the exceptions the two try blocks can catch
ExceptionTexts ==
  { "Read timed out. (read timeout=30)", "401 Client Error for url",
    "Expecting value: line 1 column 1 (char 0)",
    "'choices'", "'candidates'", "list index out of range" }

\* C10: once the API request of a provider is issued the run goes on; the
\* source is "api (<model>)" whether the call succeeds or fails, and on a
\* failure the response is "Error querying ChatGPT (<model>): <detail>"
\* (resp. Gemini), <model> being the resolved model identifier.
C10_ApiFailureIsText ==
  /\ (PastChatgpt(run) /\ ApiCalls(run, "chatgpt") # <<>>) =>
       LET a == ApiCalls(run, "chatgpt")[1] IN
       /\ a.model = run.openai_model
       /\ run.chatgpt_source = "api (" \o run.openai_model \o ")"
       /\ IF OpenAIAnswered(a.outcome)
            THEN run.chatgpt_response = a.outcome.body.choices[1].message.content
            ELSE \E d \in ExceptionTexts :
                   run.chatgpt_response =
                     "Error querying ChatGPT (" \o run.openai_model \o "): " \o d
       /\ run.pc = "done" =>
            run.stdout[1].chatgpt =
              [model |-> run.openai_model, source |-> run.chatgpt_source,
               response |-> run.chatgpt_response]
  /\ (PastGemini(run) /\ ApiCalls(run, "gemini") # <<>>) =>
       LET a == ApiCalls(run, "gemini")[1] IN
       /\ a.model = run.gemini_model
       /\ run.gemini_source = "api (" \o run.gemini_model \o ")"
       /\ IF GeminiAnswered(a.outcome)
            THEN run.gemini_response =
                   a.outcome.body.candidates[1].content.parts[1].text
            ELSE \E d \in ExceptionTexts :
                   run.gemini_response =
                     "Error querying Gemini (" \o run.gemini_model \o "): " \o d
       /\ run.pc = "done" =>
            run.stdout[1].gemini =
              [model |-> run.gemini_model, source |-> run.gemini_source,
               response |-> run.gemini_response]
  /\ run.events # <<>> => (run.pc # "exited" /\ (Finished(run) \/ ENABLED Next))

\* a finished run whose two API calls failed, ChatGPT's under a model that
\* is not the default
C10_Witness ==
  /\ run.pc = "done"
  /\ run.openai_model = "gpt-4o"
  /\ Len(ApiCalls(run, "chatgpt")) = 1
  /\ ApiCalls(run, "chatgpt")[1].outcome.status = 401
  /\ run.stdout[1].chatgpt.source = "api (gpt-4o)"
  /\ run.stdout[1].chatgpt.response =
       "Error querying ChatGPT (gpt-4o): 401 Client Error for url"
  /\ Len(ApiCalls(run, "gemini")) = 1
  /\ ~ApiCalls(run, "gemini")[1].outcome.is_json
  /\ run.stdout[1].gemini.source = "api (gemini-pro)"

====
